---- MODULE Spec2Model ----
(***************************************************************************)
(* Model of the CrowdStrike service-access analyzer                        *)
(* (src/src/components/CrowdStrikeAnalyzer.tsx, third revision of the      *)
(* component, lines 873-1543): the aggregation pipeline processData, the   *)
(* file-load life cycle (processFile and the Papa.parse callbacks), the    *)
(* view reset, the date-range controls, the session cache, the filtered    *)
(* and sorted view with its controls, the CSV export, and the analytics    *)
(* memo of the dashboard (src/unnamed/part_002, and the two projections    *)
(* that src/src/components/CrowdStrikeDashboard.tsx cuts to five entries). *)
(*                                                                         *)
(* Strings are sequences of one-character strings, so that the template    *)
(* key of the grouping and its split are computed, not assumed.  A date    *)
(* string "2024-01-DD" is the one-element sequence <<DD>>, the empty       *)
(* string is <<>>.  A Timestamp string "2024-01-DDTHH:MM:SS.mmmZ" is the   *)
(* record [d, h, m, s, ms]; day 00 is what the date parser rejects.        *)
(* Instants are milliseconds since 2024-01-01T00:00:00.000Z.               *)
(* A nullable value is <<>> (null) or <<v>>.                               *)
(***************************************************************************)
EXTENDS Integers, Sequences, FiniteSets, TLC

\* ------------------------------------------------------------------ bounds
MaxEvents == 3
MaxInFlight == 2
MaxResetTimers == 1
MaxDownloadTimers == 1
MaxRows == 6

\* ------------------------------------------------------- nullable values
Null == <<>>
Some(v) == <<v>>
EmptyStr == <<>>

\* ------------------------------------------------------------ clock units
MsPerSecond == 1 * 1000
MsPerMinute == 60 * MsPerSecond
MsPerHour == 60 * MsPerMinute
MsPerDay == 24 * MsPerHour
\* getTime() of an Invalid Date
NaN == 0 - 1
\* America/Los_Angeles in January (PST)
LAOffset == 0 - 8 * MsPerHour
\* offsets of the host's local time zone from UTC
TZOffsets == {0 - 8 * MsPerHour, 0, 1 * MsPerHour}

\* new Date(row.Timestamp).getTime()
NewDate(ts) ==
    IF ts.d = 0 THEN NaN
    ELSE (ts.d - 1) * MsPerDay + ts.h * MsPerHour + ts.m * MsPerMinute
         + ts.s * MsPerSecond + ts.ms

\* new Date(dateString).getTime() for a date-only string: UTC midnight
ParseDate(s) == IF s = EmptyStr THEN NaN ELSE (s[1] - 1) * MsPerDay

\* date.toISOString().split('T')[0]: the UTC calendar date
ISODate(t) == <<(t \div MsPerDay) + 1>>

\* endDate.setHours(23, 59, 59, 999): end of the LOCAL day that holds t
SetHoursEndOfDay(t, off) ==
    IF t = NaN THEN NaN
    ELSE LET local == t + off
             tod == (local + MsPerDay) % MsPerDay
         IN (local - tod) + (MsPerDay - 1) - off

\* relational operators on Date values: false when either side is NaN
DateGE(a, b) == a # NaN /\ b # NaN /\ a >= b
DateLE(a, b) == a # NaN /\ b # NaN /\ a <= b

\* ---------------------------------------------------------------- strings
Digits == <<"0", "1", "2", "3", "4", "5", "6", "7", "8", "9">>
TwoDigit(n) == <<Digits[(n \div 10) + 1], Digits[(n % 10) + 1]>>
InvalidDateStr == <<"I", "n", "v", "a", "l", "i", "d", " ", "D", "a", "t", "e">>

\* the characters of the model in UTF-16 code-unit order
Alphabet ==
    <<" ", "0", "1", "2", "3", "4", "5", "6", "7", "8", "9", ":",
      "A", "B", "C", "D", "I", "P", "S", "T",
      "a", "b", "c", "d", "e", "f", "i", "l", "n", "s", "t", "u", "v", "x",
      "|">>
Code(c) == CHOOSE i \in 1..Len(Alphabet) : Alphabet[i] = c

\* a < b on strings (code-unit lexicographic)
StrLess(a, b) ==
    \E k \in 1..(Len(b)) :
        /\ k <= Len(a) + 1
        /\ \A j \in 1..(k - 1) : a[j] = b[j]
        /\ \/ k = Len(a) + 1
           \/ Code(a[k]) < Code(b[k])

\* the elements of a finite set of integers in ascending order
AscendingSeq(S) ==
    [k \in 1..Cardinality(S) |->
        CHOOSE i \in S : Cardinality({j \in S : j < i}) = k - 1]

\* key.split('|')
Split(s, sep) ==
    LET cuts == AscendingSeq({i \in 1..Len(s) : s[i] = sep})
        edge == <<0>> \o cuts \o <<Len(s) + 1>>
    IN [k \in 1..(Len(cuts) + 1) |-> SubSeq(s, edge[k] + 1, edge[k + 1] - 1)]

\* toLocaleString('en-US', {timeZone: LA, hour, minute, hour12: false})
TimeGroup(t) ==
    IF t = NaN THEN InvalidDateStr
    ELSE LET tod == (t + LAOffset + MsPerDay) % MsPerDay
         IN TwoDigit(tod \div MsPerHour) \o <<":">>
            \o TwoDigit((tod % MsPerHour) \div MsPerMinute)

\* convertToPST: hour, minute and second in Los Angeles, then ' PST'
ConvertToPST(t) ==
    LET tod == (t + LAOffset + MsPerDay) % MsPerDay
    IN TwoDigit(tod \div MsPerHour) \o <<":">>
       \o TwoDigit((tod % MsPerHour) \div MsPerMinute) \o <<":">>
       \o TwoDigit((tod % MsPerMinute) \div MsPerSecond)
       \o <<" ", "P", "S", "T">>

\* ------------------------------------------------------- lodash helpers
\* a stable sort under the comparison before[i][j] ("element i sorts before
\* element j"): the element at rank k is the one with k - 1 predecessors
StableSort(s, before) ==
    LET n == Len(s)
        Rank(i) == Cardinality({j \in 1..n :
                       \/ before[j][i]
                       \/ (~before[i][j] /\ j < i)})
    IN [k \in 1..n |-> s[CHOOSE i \in 1..n : Rank(i) = k - 1]]

\* SortByTimestamp that leaves the events in the order of the input
SortByTimestampSkipped(s) == s

\* _.sortBy(filteredData, 'Timestamp'), on valid dates
SortByTimestamp(s) ==
    StableSort(s, [i \in 1..Len(s) |-> [j \in 1..Len(s) |->
                      s[i].Timestamp < s[j].Timestamp]])

\* the field values that are no strings: null (an empty cell under
\* dynamicTyping) and undefined (a cell the line does not have)
JsNull == <<"null">>
Undefined == <<"undefined">>

\* `${value}`: a string as it is, null and undefined by their names
Interpolate(value) ==
    IF value = JsNull THEN <<"n", "u", "l", "l">>
    ELSE IF value = Undefined
         THEN <<"u", "n", "d", "e", "f", "i", "n", "e", "d">>
         ELSE value

\* the template string of the grouping
GroupKey(row) ==
    Interpolate(row.Source) \o <<"|">> \o Interpolate(row.SourceName)
    \o <<"|">> \o Interpolate(row.IP) \o <<"|">> \o Interpolate(row.Service)
    \o <<"|">> \o Interpolate(row.Target) \o <<"|">> \o row.time_group

\* Object.entries(_.groupBy(sortedData, key)): the keys in order of first
\* occurrence, each with its events in order
GroupBy(s) ==
    LET firsts == AscendingSeq({i \in 1..Len(s) :
                      \A j \in 1..(i - 1) : GroupKey(s[j]) # GroupKey(s[i])})
    IN [k \in 1..Len(firsts) |->
          [key |-> GroupKey(s[firsts[k]]),
           group |-> SelectSeq(s, LAMBDA e : GroupKey(e) = GroupKey(s[firsts[k]]))]]

\* FrequencyRow with the count lost (every pattern reported once)
FrequencyRowNoCount(key, group) ==
    LET part == Split(key, "|")
    IN [Source |-> part[1], SourceName |-> part[2], IP |-> part[3],
        Service |-> part[4], Target |-> part[5],
        Time |-> ConvertToPST(group[1].Timestamp),
        freq |-> 1]

\* one ProcessedRow of frequencyData
FrequencyRow(key, group) ==
    LET part == Split(key, "|")
    IN [Source |-> part[1], SourceName |-> part[2], IP |-> part[3],
        Service |-> part[4], Target |-> part[5],
        Time |-> ConvertToPST(group[1].Timestamp),
        freq |-> Len(group)]

\* Object.entries(grouped).map(...)
FrequencyData(grouped) ==
    [k \in 1..Len(grouped) |-> FrequencyRow(grouped[k].key, grouped[k].group)]

\* SourceFreqBefore with both columns ascending
SourceFreqAscending(a, b) ==
    \/ StrLess(a.Source, b.Source)
    \/ (a.Source = b.Source /\ a.freq < b.freq)

\* comparison of _.orderBy(frequencyData, ['Source', 'freq'], ['asc', 'desc'])
SourceFreqBefore(a, b) ==
    \/ StrLess(a.Source, b.Source)
    \/ (a.Source = b.Source /\ a.freq > b.freq)

OrderBySourceFreq(rows) ==
    StableSort(rows, [i \in 1..Len(rows) |-> [j \in 1..Len(rows) |->
                         SourceFreqBefore(rows[i], rows[j])]])

\* RangeGiven with || in place of &&
RangeGivenEither(range) ==
    /\ range # Null
    /\ \/ range[1].startDate # EmptyStr
       \/ range[1].endDate # EmptyStr

\* dateRange?.startDate && dateRange?.endDate
RangeGiven(range) ==
    /\ range # Null
    /\ range[1].startDate # EmptyStr
    /\ range[1].endDate # EmptyStr

\* the predicate of processedData.filter
InDateRange(row, range, off) ==
    LET startDate == ParseDate(range.startDate)
        endDate == SetHoursEndOfDay(ParseDate(range.endDate), off)
    IN DateGE(row.Timestamp, startDate) /\ DateLE(row.Timestamp, endDate)

\* data.map(row => ({...row, Timestamp: new Date(..), time_group: ..}))
Normalize(data) ==
    [i \in 1..Len(data) |->
        [Source |-> data[i].Source, SourceName |-> data[i].SourceName,
         IP |-> data[i].IP, Service |-> data[i].Service,
         Target |-> data[i].Target,
         Timestamp |-> NewDate(data[i].Timestamp),
         time_group |-> TimeGroup(NewDate(data[i].Timestamp))]]

FilterByRange(processed, range, off) ==
    IF RangeGiven(range)
    THEN SelectSeq(processed, LAMBDA row : InDateRange(row, range[1], off))
    ELSE processed

\* processData(data, dateRange?): the rows, or the exception wrapped by the
\* catch.  An Invalid Date that survives the filter heads the group of the
\* 'Invalid Date' bucket, and toISOString throws on it.
ProcessData(data, range, off) ==
    LET filteredData == FilterByRange(Normalize(data), range, off)
    IN IF \E k \in 1..Len(filteredData) : filteredData[k].Timestamp = NaN
       THEN [ok |-> FALSE, rows |-> <<>>,
             error |-> "Data processing failed: Invalid time value"]
       ELSE [ok |-> TRUE,
             rows |-> OrderBySourceFreq(
                        FrequencyData(GroupBy(SortByTimestamp(filteredData)))),
             error |-> ""]

\* ------------------------------------------------- the filters of the view
\* String.prototype.toLowerCase on the letters of the model
LowerChar(c) ==
    CASE c = "A" -> "a" [] c = "B" -> "b" [] c = "C" -> "c" [] c = "D" -> "d"
      [] c = "I" -> "i" [] c = "P" -> "p" [] c = "S" -> "s" [] c = "T" -> "t"
      [] OTHER -> c
ToLowerCase(s) == [i \in 1..Len(s) |-> LowerChar(s[i])]

\* String.prototype.includes
Includes(s, sub) ==
    \E i \in 0..(Len(s) - Len(sub)) : SubSeq(s, i + 1, i + Len(sub)) = sub

\* BySource that compares the Source column in place of the IP column
BySourceColumn(data, source) ==
    IF source # EmptyStr
    THEN SelectSeq(data, LAMBDA row : row.Source = source)
    ELSE data

\* if (selectedSource) filtered = filtered.filter(row => row.IP === ..)
BySource(data, source) ==
    IF source # EmptyStr
    THEN SelectSeq(data, LAMBDA row : row.IP = source)
    ELSE data

\* MatchesSearch that compares without lowering the case of the fields
MatchesSearchCaseSensitive(row, searchLower) ==
    \/ Includes(row.Source, searchLower)
    \/ Includes(row.Target, searchLower)
    \/ Includes(row.SourceName, searchLower)
    \/ Includes(row.IP, searchLower)
    \/ Includes(row.Service, searchLower)

\* the predicate of the search filter
MatchesSearch(row, searchLower) ==
    \/ Includes(ToLowerCase(row.Source), searchLower)
    \/ Includes(ToLowerCase(row.Target), searchLower)
    \/ Includes(ToLowerCase(row.SourceName), searchLower)
    \/ Includes(ToLowerCase(row.IP), searchLower)
    \/ Includes(ToLowerCase(row.Service), searchLower)

\* if (searchTerm) filtered = filtered.filter(..)
BySearch(data, term) ==
    IF term # EmptyStr
    THEN SelectSeq(data, LAMBDA row : MatchesSearch(row, ToLowerCase(term)))
    ELSE data

\* filterResults(data) under the filter state (selectedSource, searchTerm)
FilterResults(data, source, term) == BySearch(BySource(data, source), term)

\* the columns of the table (keys of columnWidths)
SortKeys == {"Source", "Source Name", "IP", "Service", "Target", "Time", "freq"}
SortDirections == {"asc", "desc"}

\* row[key] for a text column
Field(row, key) ==
    CASE key = "Source" -> row.Source
      [] key = "Source Name" -> row.SourceName
      [] key = "IP" -> row.IP
      [] key = "Service" -> row.Service
      [] key = "Target" -> row.Target
      [] key = "Time" -> row.Time

\* ColumnBefore that takes every direction for ascending
ColumnBeforeAscending(a, b, config) ==
    IF config.key = "freq"
    THEN a.freq < b.freq
    ELSE StrLess(Field(a, config.key), Field(b, config.key))

\* comparison of _.orderBy(data, [key], [direction])
ColumnBefore(a, b, config) ==
    LET lt(x, y) == IF config.key = "freq"
                    THEN x.freq < y.freq
                    ELSE StrLess(Field(x, config.key), Field(y, config.key))
    IN IF config.direction = "asc" THEN lt(a, b) ELSE lt(b, a)

\* sortResults(data) under sortConfig
SortResults(data, config) ==
    StableSort(data, [i \in 1..Len(data) |-> [j \in 1..Len(data) |->
                         ColumnBefore(data[i], data[j], config)]])

\* the body of the filteredAndSortedResults memo
FilteredAndSortedResults(res, source, term, config) ==
    IF res = Null THEN <<>>
    ELSE SortResults(FilterResults(res[1], source, term), config)

\* Papa.unparse(rows): the header line and one line per row; '' for no rows
Unparse(rows) ==
    IF rows = <<>> THEN <<>>
    ELSE << <<"Source", "Source Name", "IP", "Service", "Target", "Time",
              "freq">> >>
         \o [k \in 1..Len(rows) |->
               <<rows[k].Source, rows[k].SourceName, rows[k].IP,
                 rows[k].Service, rows[k].Target, rows[k].Time,
                 rows[k].freq>>]

\* ------------------------------------------- the analytics of the dashboard
\* the lengths of the projections
TopFive == 5
TopTimePatterns == 8
RelationLabelLength == 20
TargetLabelLength == 15

\* the sum of row.freq over rows
RECURSIVE SumFreq(_)
SumFreq(rows) ==
    IF rows = <<>> THEN 0 ELSE rows[1].freq + SumFreq(Tail(rows))

Unknown == <<"U", "n", "k", "n", "o", "w", "n">>
\* row.Source || 'Unknown'
OrUnknown(s) == IF s = EmptyStr THEN Unknown ELSE s

\* the keys of a Map in insertion order
Distinct(keys) ==
    LET firsts == AscendingSeq({i \in 1..Len(keys) :
                      \A j \in 1..(i - 1) : keys[j] # keys[i]})
    IN [k \in 1..Len(firsts) |-> keys[firsts[k]]]

\* SortDescending that leaves the entries in insertion order
SortDescendingSkipped(entries, value) == entries

\* entries.sort((a, b) => b.value - a.value), value[i] that of entries[i]
SortDescending(entries, value) ==
    StableSort(entries, [i \in 1..Len(entries) |-> [j \in 1..Len(entries) |->
                            value[i] > value[j]]])

\* Take that keeps what slice(0, n) drops
TakeRest(s, n) == SubSeq(s, n + 1, Len(s))

\* s.slice(0, n)
Take(s, n) == SubSeq(s, 1, IF Len(s) < n THEN Len(s) ELSE n)

\* Math.round(n / d) for n >= 0 and d > 0
Round(n, d) == (2 * n + d) \div (2 * d)

\* label.length > n ? label.slice(0, n) + '...' : label
Truncate(label, n) ==
    IF Len(label) > n THEN SubSeq(label, 1, n) \o <<".", ".", ".">> ELSE label

TopSources(data) ==
    LET keys == Distinct([i \in 1..Len(data) |-> OrUnknown(data[i].Source)])
        rows(k) == SelectSeq(data, LAMBDA r : OrUnknown(r.Source) = keys[k])
        entries == [k \in 1..Len(keys) |->
                      [source |-> keys[k], count |-> Len(rows(k)),
                       totalFreq |-> SumFreq(rows(k))]]
    IN Take(SortDescending(entries,
                [k \in 1..Len(keys) |-> entries[k].totalFreq]), TopFive)

\* percentage is in hundredths of a percent (toFixed(2))
ServiceStats(data) ==
    LET keys == Distinct([i \in 1..Len(data) |-> OrUnknown(data[i].Service)])
        rows(k) == SelectSeq(data, LAMBDA r : OrUnknown(r.Service) = keys[k])
        entries == [k \in 1..Len(keys) |->
                      [service |-> keys[k], count |-> Len(rows(k)),
                       percentage |-> Round(Len(rows(k)) * 100 * 100,
                                            Len(data))]]
    IN Take(SortDescending(entries,
                [k \in 1..Len(keys) |-> entries[k].count]), TopFive)

TargetFrequency(data) ==
    LET keys == Distinct([i \in 1..Len(data) |-> OrUnknown(data[i].Target)])
        rows(k) == SelectSeq(data, LAMBDA r : OrUnknown(r.Target) = keys[k])
        entries == [k \in 1..Len(keys) |->
                      [target |-> keys[k], frequency |-> SumFreq(rows(k))]]
    IN SortDescending(entries,
           [k \in 1..Len(keys) |-> entries[k].frequency])

TimePatternAnalysis(data) ==
    LET keys == Distinct([i \in 1..Len(data) |-> data[i].Time])
        rows(k) == SelectSeq(data, LAMBDA r : r.Time = keys[k])
        entries == [k \in 1..Len(keys) |->
                      [timePattern |-> keys[k], count |-> Len(rows(k)),
                       totalFreq |-> SumFreq(rows(k)),
                       sources |-> Cardinality({rows(k)[i].Source :
                                                   i \in 1..Len(rows(k))}),
                       targets |-> Cardinality({rows(k)[i].Target :
                                                   i \in 1..Len(rows(k))})]]
    IN Take(SortDescending(entries,
                [k \in 1..Len(keys) |-> entries[k].totalFreq]),
            TopTimePatterns)

IpDistribution(data) ==
    LET keys == Distinct([i \in 1..Len(data) |-> data[i].IP])
        rows(k) == SelectSeq(data, LAMBDA r : r.IP = keys[k])
        names(k) == SelectSeq([i \in 1..Len(rows(k)) |-> rows(k)[i].SourceName],
                              LAMBDA h : h # EmptyStr)
        services(k) == Distinct([i \in 1..Len(rows(k)) |-> rows(k)[i].Service])
        targets(k) == Distinct([i \in 1..Len(rows(k)) |-> rows(k)[i].Target])
        entries == [k \in 1..Len(keys) |->
                      [ip |-> keys[k], count |-> Len(rows(k)),
                       totalFreq |-> SumFreq(rows(k)),
                       hostnames |-> Distinct(names(k)),
                       services |-> services(k),
                       targets |-> targets(k),
                       uniqueServices |-> Len(services(k)),
                       uniqueTargets |-> Len(targets(k)),
                       avgEventsPerTarget |->
                           Round(SumFreq(rows(k)), Len(targets(k)))]]
    IN SortDescending(entries,
           [k \in 1..Len(keys) |-> entries[k].totalFreq])

\* `${sourceKey}->${targetKey}`
RelationKey(row) ==
    OrUnknown(row.Source) \o <<"-", ">">> \o OrUnknown(row.Target)

RelationshipStrength(data) ==
    LET keys == Distinct([i \in 1..Len(data) |-> RelationKey(data[i])])
        rows(k) == SelectSeq(data, LAMBDA r : RelationKey(r) = keys[k])
        entries == [k \in 1..Len(keys) |->
                      [relation |-> Truncate(keys[k], RelationLabelLength),
                       strength |-> SumFreq(rows(k))]]
    IN Take(SortDescending(entries,
                [k \in 1..Len(keys) |-> entries[k].strength]), TopFive)

\* what the analytics memo returns for no data
EmptyAnalytics ==
    [topSources |-> <<>>, serviceStats |-> <<>>, targetFrequency |-> <<>>,
     timePatternAnalysis |-> <<>>, ipDistribution |-> <<>>,
     relationshipStrength |-> <<>>]

\* the analytics memo of the dashboard (unnamed/part_002)
Analytics(data) ==
    IF data = <<>> THEN EmptyAnalytics
    ELSE [topSources |-> TopSources(data),
          serviceStats |-> ServiceStats(data),
          targetFrequency |-> TargetFrequency(data),
          timePatternAnalysis |-> TimePatternAnalysis(data),
          ipDistribution |-> IpDistribution(data),
          relationshipStrength |-> RelationshipStrength(data)]

\* the two projections that components/CrowdStrikeDashboard.tsx cuts to five
TargetFrequencyTop(data) ==
    LET all == TargetFrequency(data)
    IN Take([k \in 1..Len(all) |->
                [target |-> Truncate(all[k].target, TargetLabelLength),
                 frequency |-> all[k].frequency]], TopFive)
IpDistributionTop(data) == Take(IpDistribution(data), TopFive)

\* the analytics memo of components/CrowdStrikeDashboard.tsx
AnalyticsTop(data) ==
    IF data = <<>> THEN EmptyAnalytics
    ELSE [topSources |-> TopSources(data),
          serviceStats |-> ServiceStats(data),
          targetFrequency |-> TargetFrequencyTop(data),
          timePatternAnalysis |-> TimePatternAnalysis(data),
          ipDistribution |-> IpDistributionTop(data),
          relationshipStrength |-> RelationshipStrength(data)]

\* ------------------------------------------------------------ the inputs
Stamp(d, h, m, s, ms) == [d |-> d, h |-> h, m |-> m, s |-> s, ms |-> ms]
Event(source, name, ip, stamp) ==
    [Source |-> source, SourceName |-> name, IP |-> ip,
     Service |-> <<"s">>, Target |-> <<"t">>, Timestamp |-> stamp]

\* raw events handed to processData in the function-level specification
PDEvents ==
    { Event(<<"a">>, <<"c">>, <<"1">>, Stamp(1, 12, 0, 0, 0)),
      Event(<<"a">>, <<"c">>, <<"1">>, Stamp(2, 12, 0, 30, 0)),
      Event(<<"a">>, <<"c">>, <<"2">>, Stamp(1, 7, 59, 59, 999)),
      Event(<<"a", "|", "b">>, <<"c">>, <<"1">>, Stamp(1, 12, 0, 0, 0)),
      Event(<<"a">>, <<"b", "|", "c">>, <<"1">>, Stamp(1, 12, 0, 0, 0)),
      Event(<<"b">>, <<"d">>, <<"2">>, Stamp(1, 23, 59, 59, 999)),
      Event(<<"b">>, <<"d">>, <<"2">>, Stamp(2, 0, 0, 0, 0)),
      Event(<<"a">>, <<"c">>, <<"1">>, Stamp(0, 0, 0, 0, 0)) }
PDInputs == UNION {[1..n -> PDEvents] : n \in 0..MaxEvents}

\* raw events with empty, null and missing cells
FieldEvents ==
    { Event(<<"a">>, <<"c">>, <<"1">>, Stamp(1, 12, 0, 0, 0)),
      Event(EmptyStr, <<"c">>, <<"1">>, Stamp(1, 12, 0, 0, 0)),
      Event(<<"a">>, EmptyStr, EmptyStr, Stamp(2, 12, 0, 0, 0)),
      Event(JsNull, <<"c">>, <<"1">>, Stamp(1, 12, 0, 0, 0)),
      Event(<<"a">>, <<"c">>, Undefined, Stamp(1, 12, 0, 0, 0)) }
FieldInputs == UNION {[1..n -> FieldEvents] : n \in 0..MaxEvents}

\* the values of the two date inputs
DateStrings == {EmptyStr, <<1>>, <<2>>}
DateRanges == [startDate : DateStrings, endDate : DateStrings]
NoDateRange == [startDate |-> EmptyStr, endDate |-> EmptyStr]

\* the files the user can pick, and what Papa.parse makes of each
FileNames == {"a.csv", "b.csv", "bad.csv", "empty.csv", "corrupt.csv"}
FileParses(f) == f # "corrupt.csv"
FileRows(f) ==
    CASE f = "a.csv" ->
           << Event(<<"a">>, <<"c">>, <<"1">>, Stamp(2, 12, 0, 30, 0)),
              Event(<<"a">>, <<"c">>, <<"1">>, Stamp(1, 12, 0, 0, 0)),
              Event(<<"b">>, <<"d">>, <<"2">>, Stamp(2, 10, 15, 0, 0)) >>
      [] f = "b.csv" ->
           << Event(<<"b">>, <<"d">>, <<"2">>, Stamp(1, 9, 0, 0, 0)) >>
      [] f = "bad.csv" ->
           << Event(<<"a">>, <<"c">>, <<"1">>, Stamp(1, 12, 0, 0, 0)),
              Event(<<"a">>, <<"c">>, <<"1">>, Stamp(0, 0, 0, 0, 0)) >>
      [] OTHER -> << >>

\* what the user types into the search box
SearchTerms == {EmptyStr, <<"A">>, <<"2">>}

\* one ProcessedRow
Row(source, name, ip, service, target, time, freq) ==
    [Source |-> source, SourceName |-> name, IP |-> ip, Service |-> service,
     Target |-> target, Time |-> time, freq |-> freq]
FourAM == <<"0", "4", ":", "0", "0", ":", "0", "0", " ", "P", "S", "T">>

\* the arguments of filterResults in the function-level specification
FilterRows ==
    { Row(<<"A", "b">>, <<"c">>, <<"1">>, <<"s">>, <<"t">>, FourAM, 2),
      Row(<<"b">>, <<"D">>, <<"2">>, <<"s">>, <<"t">>, FourAM, 1),
      Row(<<"a">>, EmptyStr, <<"1", "2">>, <<"s">>, <<"x">>, FourAM, 1),
      Row(<<"c">>, <<"c">>, <<"1">>, <<"S", "4">>, <<"t">>, FourAM, 3) }
FilterTerms == {EmptyStr, <<"a">>, <<"A", "B">>, <<"2">>, <<":">>, <<"T">>,
                <<"S">>, <<"x">>}
FilterSources == {EmptyStr, <<"1">>, <<"2">>}
FilterInputs ==
    [data : UNION {[1..n -> FilterRows] : n \in 0..MaxEvents},
     source : FilterSources, term : FilterTerms]

\* the arguments of the view memo in the function-level specification
SortConfigs == [key : SortKeys, direction : SortDirections]
SortInputs ==
    [data : UNION {[1..n -> FilterRows] : n \in 0..MaxEvents},
     source : {EmptyStr, <<"1">>}, term : {EmptyStr},
     config : SortConfigs]

\* the data prop of the dashboard in the function-level specification: the
\* rows of the catalogue picked by a set of positions, in either order
AnalyticsRows ==
    << Row(<<"a">>, <<"c">>, <<"1">>, <<"s">>, <<"t">>, FourAM, 6),
       Row(<<"a">>, <<"c">>, <<"2">>, <<"s">>, <<"t">>, FourAM, 5),
       Row(<<"b">>, <<"d">>, <<"3">>, <<"s">>, <<"t">>, FourAM, 4),
       Row(<<"b">>, <<"d">>, <<"4">>, <<"r">>, <<"t">>, FourAM, 3),
       Row(<<"c">>, <<"d">>, <<"5">>, <<"s">>, <<"u">>, FourAM, 2),
       Row(<<"d">>, <<"d">>, <<"6">>, <<"s">>, <<"t">>, FourAM, 1),
       Row(EmptyStr, EmptyStr, <<"1">>, <<"r">>, <<"u">>, FourAM, 1),
       Row(<<"a">>, <<"e">>, <<"6">>, <<"s">>, <<"t">>, FourAM, 7) >>
Reverse(s) == [k \in 1..Len(s) |-> s[Len(s) + 1 - k]]
Picked(S) == [k \in 1..Cardinality(S) |-> AnalyticsRows[AscendingSeq(S)[k]]]
AnalyticsInputs ==
    UNION {{Picked(S), Reverse(Picked(S))} :
              S \in {T \in SUBSET (1..Len(AnalyticsRows)) :
                         Cardinality(T) <= MaxRows}}

\* --------------------------------------------------------------- the state
VARIABLES
    results, showSelector, showResults, loading, error,
    searchTerm, selectedSource, sortConfig, dateRange,
    rawData, currentFile, dateConstraints,
    cache,        \* localStorage['crowdstrike_analyzer_data']
    parsing,      \* per file, the Papa.parse jobs whose callback is due
    loadTimers,   \* the 300 ms timers of the complete callback not yet fired
    resetTimers,  \* the 300 ms timers of resetView not yet fired
    tz,           \* the host's offset from UTC
    view,         \* the value held by the filteredAndSortedResults memo
    dashboard,    \* the mounted dashboard: its data prop and analytics memo
    downloadSuccess,
    downloadTimers,   \* the 3 s timers of downloadResults not yet fired
    exported,     \* the CSV last handed to the browser for download
    pdData, pdCall,
    flArgs, flCall,   \* filterResults called on its own
    anData, anCall    \* the analytics memo computed on its own

appVars == <<results, showSelector, showResults, loading, error,
             searchTerm, selectedSource, sortConfig, dateRange,
             rawData, currentFile, dateConstraints,
             cache, parsing, loadTimers, resetTimers,
             view, dashboard, downloadSuccess, downloadTimers, exported>>
pdVars == <<pdData, pdCall>>
fnVars == <<flArgs, flCall, anData, anCall>>
dlVars == <<downloadSuccess, downloadTimers, exported>>
vars == <<appVars, tz, pdVars, fnVars>>

\* what the save effect writes, and the values it watches
Snapshot ==
    [rawData |-> rawData, results |-> results, searchTerm |-> searchTerm,
     selectedSource |-> selectedSource, dateRange |-> dateRange,
     dateConstraints |-> dateConstraints, currentFile |-> currentFile]

\* useEffect(save): runs after a render in which a watched value changed
SaveEffect ==
    cache' = IF rawData' # <<>> /\ Snapshot' # Snapshot
             THEN Some(Snapshot')
             ELSE cache

\* the renders that follow a state change: the filteredAndSortedResults memo
\* is recomputed when results, the filters or sortConfig changed; the
\* dashboard is mounted while results is not null, and its analytics memo is
\* recomputed when its data prop changed
ViewDeps == <<results, selectedSource, searchTerm, sortConfig>>
Mounted(data) == Some([data |-> data, analytics |-> Analytics(data)])

\* Render with an analytics memo that watches results only
RenderStaleAnalytics ==
    /\ view' = IF ViewDeps' # ViewDeps
               THEN FilteredAndSortedResults(results', selectedSource',
                                             searchTerm', sortConfig')
               ELSE view
    /\ dashboard' = IF results' = Null THEN Null
                    ELSE IF dashboard = Null \/ results' # results
                         THEN Mounted(view')
                         ELSE dashboard

Render ==
    /\ view' = IF ViewDeps' # ViewDeps
               THEN FilteredAndSortedResults(results', selectedSource',
                                             searchTerm', sortConfig')
               ELSE view
    /\ dashboard' = IF results' = Null THEN Null
                    ELSE IF dashboard = Null \/ ViewDeps' # ViewDeps
                         THEN Mounted(view')
                         ELSE dashboard

NoCall == [called |-> FALSE, range |-> Null,
           out |-> [ok |-> TRUE, rows |-> <<>>, error |-> ""]]
NoFilterCall == [called |-> FALSE, out |-> <<>>]
NoAnalyticsCall == [called |-> FALSE, out |-> EmptyAnalytics,
                    top |-> EmptyAnalytics]
NoFilterArgs == [data |-> <<>>, source |-> EmptyStr, term |-> EmptyStr]

\* the component after construction (useState initial values)
InitApp ==
    /\ results = Null
    /\ showSelector = TRUE
    /\ showResults = FALSE
    /\ loading = FALSE
    /\ error = Null
    /\ searchTerm = EmptyStr
    /\ selectedSource = EmptyStr
    /\ sortConfig = [key |-> "freq", direction |-> "desc"]
    /\ dateRange = NoDateRange
    /\ rawData = <<>>
    /\ currentFile = ""
    /\ dateConstraints = [minDate |-> EmptyStr, maxDate |-> EmptyStr]
    /\ cache = Null
    /\ parsing = [f \in FileNames |-> 0]
    /\ loadTimers = 0
    /\ resetTimers = 0
    /\ tz \in TZOffsets
    /\ view = <<>>
    /\ dashboard = Null
    /\ downloadSuccess = FALSE
    /\ downloadTimers = 0
    /\ exported = Null

\* no function is called on its own
InitFn ==
    /\ pdData = <<>>
    /\ pdCall = NoCall
    /\ flArgs = NoFilterArgs
    /\ flCall = NoFilterCall
    /\ anData = <<>>
    /\ anCall = NoAnalyticsCall

Init ==
    /\ InitApp
    /\ InitFn

\* ----------------------------------------------------- the load life cycle
MinOf(S) == CHOOSE x \in S : \A y \in S : x <= y
MaxOf(S) == CHOOSE x \in S : \A y \in S : x >= y

RECURSIVE CountJobs(_)
CountJobs(F) ==
    IF F = {} THEN 0
    ELSE LET f == CHOOSE x \in F : TRUE
         IN parsing[f] + CountJobs(F \ {f})
\* the parse jobs and timers of processFile that are still to run
InFlight == CountJobs(FileNames) + loadTimers

\* processFile(file) up to the call of Papa.parse
ProcessFile(f) ==
    /\ InFlight < MaxInFlight
    /\ loading' = TRUE
    /\ error' = Null
    /\ currentFile' = f
    /\ parsing' = [parsing EXCEPT ![f] = @ + 1]
    /\ UNCHANGED <<results, showSelector, showResults, searchTerm,
                   selectedSource, sortConfig, dateRange, rawData,
                   dateConstraints, loadTimers, resetTimers, tz, pdVars, fnVars, dlVars>>
    /\ Render
    /\ SaveEffect

\* the complete callback of a job that parses file f
ParseComplete(f) ==
    /\ parsing[f] > 0
    /\ FileParses(f)
    /\ parsing' = [parsing EXCEPT ![f] = @ - 1]
    /\ LET data == FileRows(f)
           timestamps == {NewDate(data[k].Timestamp) : k \in 1..Len(data)}
           out == ProcessData(data, Null, tz)
       IN IF timestamps = {} \/ NaN \in timestamps
          THEN \* toISOString of an Invalid Date throws before any setter
               /\ error' = Some("Invalid time value")
               /\ loading' = FALSE
               /\ UNCHANGED <<results, rawData, dateConstraints,
                              showSelector, loadTimers>>
          ELSE /\ dateConstraints' = [minDate |-> ISODate(MinOf(timestamps)),
                                      maxDate |-> ISODate(MaxOf(timestamps))]
               /\ rawData' = data
               /\ IF out.ok
                  THEN /\ results' = Some(out.rows)
                       /\ showSelector' = FALSE
                       /\ loadTimers' = loadTimers + 1
                       /\ UNCHANGED <<error, loading>>
                  ELSE /\ error' = Some(out.error)
                       /\ loading' = FALSE
                       /\ UNCHANGED <<results, showSelector, loadTimers>>
    /\ UNCHANGED <<showResults, searchTerm, selectedSource, sortConfig,
                   dateRange, currentFile, resetTimers, tz, pdVars, fnVars, dlVars>>
    /\ Render
    /\ SaveEffect

\* the error callback of a job that parses file f
ParseError(f) ==
    /\ parsing[f] > 0
    /\ ~FileParses(f)
    /\ parsing' = [parsing EXCEPT ![f] = @ - 1]
    /\ error' = Some("File parsing failed")
    /\ loading' = FALSE
    /\ UNCHANGED <<results, showSelector, showResults, searchTerm,
                   selectedSource, sortConfig, dateRange, rawData,
                   currentFile, dateConstraints, loadTimers, resetTimers,
                   tz, pdVars, fnVars, dlVars>>
    /\ Render
    /\ SaveEffect

\* a 300 ms timer set by a complete callback
LoadTimer ==
    /\ loadTimers > 0
    /\ loadTimers' = loadTimers - 1
    /\ showResults' = TRUE
    /\ loading' = FALSE
    /\ UNCHANGED <<results, showSelector, error, searchTerm, selectedSource,
                   sortConfig, dateRange, rawData, currentFile,
                   dateConstraints, parsing, resetTimers, tz, pdVars, fnVars, dlVars>>
    /\ Render
    /\ SaveEffect

\* resetView; its button is rendered only while results is not null
ResetView ==
    /\ results # Null
    /\ resetTimers < MaxResetTimers
    /\ results' = Null
    /\ showResults' = FALSE
    /\ resetTimers' = resetTimers + 1
    /\ currentFile' = ""
    /\ rawData' = <<>>
    /\ searchTerm' = EmptyStr
    /\ selectedSource' = EmptyStr
    /\ dateRange' = NoDateRange
    /\ cache' = Null
    /\ UNCHANGED <<showSelector, loading, error, sortConfig,
                   dateConstraints, parsing, loadTimers, tz, pdVars,
                   fnVars, dlVars>>
    /\ Render

\* the 300 ms timer set by resetView
ResetTimer ==
    /\ resetTimers > 0
    /\ showSelector' = TRUE
    /\ resetTimers' = resetTimers - 1
    /\ UNCHANGED <<results, showResults, loading, error, searchTerm,
                   selectedSource, sortConfig, dateRange, rawData,
                   currentFile, dateConstraints, parsing, loadTimers, tz, pdVars, fnVars, dlVars>>
    /\ Render
    /\ SaveEffect

\* ------------------------------------------------------ the date controls
\* SetStartDate that applies the range as it is edited
SetStartDateApplying(d) ==
    /\ results # Null
    /\ dateRange' = [dateRange EXCEPT !.startDate = d]
    /\ LET out == ProcessData(rawData, Some(dateRange'), tz)
       IN results' = IF out.ok THEN Some(out.rows) ELSE results
    /\ UNCHANGED <<showSelector, showResults, loading, error,
                   searchTerm, selectedSource, sortConfig, rawData,
                   currentFile, dateConstraints, parsing, loadTimers,
                   resetTimers, tz, pdVars, fnVars, dlVars>>
    /\ Render
    /\ SaveEffect

\* onChange of the Start Date input
SetStartDate(d) ==
    /\ results # Null
    /\ dateRange' = [dateRange EXCEPT !.startDate = d]
    /\ UNCHANGED <<results, showSelector, showResults, loading, error,
                   searchTerm, selectedSource, sortConfig, rawData,
                   currentFile, dateConstraints, parsing, loadTimers,
                   resetTimers, tz, pdVars, fnVars, dlVars>>
    /\ Render
    /\ SaveEffect

\* onChange of the End Date input
SetEndDate(d) ==
    /\ results # Null
    /\ dateRange' = [dateRange EXCEPT !.endDate = d]
    /\ UNCHANGED <<results, showSelector, showResults, loading, error,
                   searchTerm, selectedSource, sortConfig, rawData,
                   currentFile, dateConstraints, parsing, loadTimers,
                   resetTimers, tz, pdVars, fnVars, dlVars>>
    /\ Render
    /\ SaveEffect

\* handleDateRangeApply that keeps the filtered events as the new rawData
HandleDateRangeApplyDestructive ==
    /\ results # Null
    /\ rawData # <<>>
    /\ LET out == ProcessData(rawData, Some(dateRange), tz)
       IN results' = IF out.ok THEN Some(out.rows) ELSE results
    /\ rawData' = IF RangeGiven(Some(dateRange))
                  THEN SelectSeq(rawData, LAMBDA e :
                           InDateRange(Normalize(<<e>>)[1], dateRange, tz))
                  ELSE rawData
    /\ UNCHANGED <<showSelector, showResults, loading, error, searchTerm,
                   selectedSource, sortConfig, dateRange,
                   currentFile, dateConstraints, parsing, loadTimers,
                   resetTimers, tz, pdVars, fnVars, dlVars>>
    /\ Render
    /\ SaveEffect

\* handleDateRangeApply; an exception of processData leaves the state alone
HandleDateRangeApply ==
    /\ results # Null
    /\ rawData # <<>>
    /\ LET out == ProcessData(rawData, Some(dateRange), tz)
       IN results' = IF out.ok THEN Some(out.rows) ELSE results
    /\ UNCHANGED <<showSelector, showResults, loading, error, searchTerm,
                   selectedSource, sortConfig, dateRange, rawData,
                   currentFile, dateConstraints, parsing, loadTimers,
                   resetTimers, tz, pdVars, fnVars, dlVars>>
    /\ Render
    /\ SaveEffect

\* ------------------------------------------------- the table's controls
\* SetSearchTerm that narrows the table itself to the matching rows
SetSearchTermNarrowing(term) ==
    /\ results # Null
    /\ searchTerm' = term
    /\ results' = Some(FilterResults(results[1], selectedSource, term))
    /\ UNCHANGED <<showSelector, showResults, loading, error,
                   selectedSource, sortConfig, dateRange, rawData,
                   currentFile, dateConstraints, parsing, loadTimers,
                   resetTimers, tz, pdVars, fnVars, dlVars>>
    /\ Render
    /\ SaveEffect

\* onChange of the search box
SetSearchTerm(term) ==
    /\ results # Null
    /\ searchTerm' = term
    /\ UNCHANGED <<results, showSelector, showResults, loading, error,
                   selectedSource, sortConfig, dateRange, rawData,
                   currentFile, dateConstraints, parsing, loadTimers,
                   resetTimers, tz, pdVars, fnVars, dlVars>>
    /\ Render
    /\ SaveEffect

\* the values of the source selector: '' and the IPs of uniqueSources
SourceOptions ==
    {EmptyStr} \cup (IF results = Null THEN {}
                     ELSE {results[1][k].IP : k \in 1..Len(results[1])})

\* onValueChange of the source selector
SetSelectedSource(ip) ==
    /\ results # Null
    /\ ip \in SourceOptions
    /\ selectedSource' = ip
    /\ UNCHANGED <<results, showSelector, showResults, loading, error,
                   searchTerm, sortConfig, dateRange, rawData,
                   currentFile, dateConstraints, parsing, loadTimers,
                   resetTimers, tz, pdVars, fnVars, dlVars>>
    /\ Render
    /\ SaveEffect

\* handleSort that flips the direction whatever column was clicked
HandleSortFlipping(key) ==
    /\ results # Null
    /\ view # <<>>
    /\ sortConfig' =
          [key |-> key,
           direction |-> IF sortConfig.direction = "asc"
                         THEN "desc" ELSE "asc"]
    /\ UNCHANGED <<results, showSelector, showResults, loading, error,
                   searchTerm, selectedSource, dateRange, rawData,
                   currentFile, dateConstraints, parsing, loadTimers,
                   resetTimers, tz, pdVars, fnVars, dlVars>>
    /\ Render
    /\ SaveEffect

\* handleSort(key); the header is rendered only over a non-empty view
HandleSort(key) ==
    /\ results # Null
    /\ view # <<>>
    /\ sortConfig' =
          [key |-> key,
           direction |-> IF sortConfig.key = key /\ sortConfig.direction = "asc"
                         THEN "desc" ELSE "asc"]
    /\ UNCHANGED <<results, showSelector, showResults, loading, error,
                   searchTerm, selectedSource, dateRange, rawData,
                   currentFile, dateConstraints, parsing, loadTimers,
                   resetTimers, tz, pdVars, fnVars, dlVars>>
    /\ Render
    /\ SaveEffect

\* the reset-all-filters button that processes rawData under the range that
\* was applied
ResetFiltersKeepingRange ==
    /\ results # Null
    /\ searchTerm' = EmptyStr
    /\ selectedSource' = EmptyStr
    /\ dateRange' = NoDateRange
    /\ dateConstraints' = [minDate |-> EmptyStr, maxDate |-> EmptyStr]
    /\ LET out == ProcessData(rawData, Some(dateRange), tz)
       IN results' = IF rawData # <<>> /\ out.ok THEN Some(out.rows)
                     ELSE results
    /\ UNCHANGED <<showSelector, showResults, loading, error, sortConfig,
                   rawData, currentFile, parsing, loadTimers,
                   resetTimers, tz, pdVars, fnVars, dlVars>>
    /\ Render
    /\ SaveEffect

\* onClick of the reset-all-filters button, rendered with the results
ResetFilters ==
    /\ results # Null
    /\ searchTerm' = EmptyStr
    /\ selectedSource' = EmptyStr
    /\ dateRange' = NoDateRange
    /\ dateConstraints' = [minDate |-> EmptyStr, maxDate |-> EmptyStr]
    /\ LET out == ProcessData(rawData, Null, tz)
       IN results' = IF rawData # <<>> /\ out.ok THEN Some(out.rows)
                     ELSE results
    /\ UNCHANGED <<showSelector, showResults, loading, error, sortConfig,
                   rawData, currentFile, parsing, loadTimers,
                   resetTimers, tz, pdVars, fnVars, dlVars>>
    /\ Render
    /\ SaveEffect

\* downloadResults
DownloadResults ==
    /\ results # Null
    /\ downloadTimers < MaxDownloadTimers
    /\ exported' = Some(Unparse(results[1]))
    /\ downloadSuccess' = TRUE
    /\ downloadTimers' = downloadTimers + 1
    /\ UNCHANGED <<results, showSelector, showResults, loading, error,
                   searchTerm, selectedSource, sortConfig, dateRange, rawData,
                   currentFile, dateConstraints, parsing, loadTimers,
                   resetTimers, tz, pdVars, fnVars>>
    /\ Render
    /\ SaveEffect

\* the 3 s timer set by downloadResults
DownloadTimer ==
    /\ downloadTimers > 0
    /\ downloadTimers' = downloadTimers - 1
    /\ downloadSuccess' = FALSE
    /\ UNCHANGED <<results, showSelector, showResults, loading, error,
                   searchTerm, selectedSource, sortConfig, dateRange, rawData,
                   currentFile, dateConstraints, parsing, loadTimers,
                   resetTimers, tz, pdVars, fnVars, exported>>
    /\ Render
    /\ SaveEffect

\* ------------------------------------------------------------- the remount
\* the page is loaded again: the component is constructed anew, the parse
\* jobs and timers of the old page are gone, and the restore effect reads
\* the cache
Remount ==
    /\ parsing' = [f \in FileNames |-> 0]
    /\ loadTimers' = 0
    /\ resetTimers' = 0
    /\ downloadTimers' = 0
    /\ downloadSuccess' = FALSE
    /\ loading' = FALSE
    /\ error' = Null
    /\ sortConfig' = [key |-> "freq", direction |-> "desc"]
    /\ IF cache # Null /\ cache[1].rawData # <<>>
       THEN /\ rawData' = cache[1].rawData
            /\ results' = cache[1].results
            /\ searchTerm' = cache[1].searchTerm
            /\ selectedSource' = cache[1].selectedSource
            /\ dateRange' = cache[1].dateRange
            /\ dateConstraints' = cache[1].dateConstraints
            /\ currentFile' = cache[1].currentFile
            /\ showSelector' = FALSE
            /\ showResults' = TRUE
       ELSE /\ rawData' = <<>>
            /\ results' = Null
            /\ searchTerm' = EmptyStr
            /\ selectedSource' = EmptyStr
            /\ dateRange' = NoDateRange
            /\ dateConstraints' = [minDate |-> EmptyStr, maxDate |-> EmptyStr]
            /\ currentFile' = ""
            /\ showSelector' = TRUE
            /\ showResults' = FALSE
    /\ view' = FilteredAndSortedResults(results', selectedSource',
                                        searchTerm', sortConfig')
    /\ dashboard' = IF results' = Null THEN Null ELSE Mounted(view')
    /\ UNCHANGED <<cache, exported, tz, pdVars, fnVars>>

\* ------------------------------------------- processData called on its own
InitPD ==
    /\ InitApp
    /\ pdData \in PDInputs
    /\ pdCall = NoCall
    /\ flArgs = NoFilterArgs
    /\ flCall = NoFilterCall
    /\ anData = <<>>
    /\ anCall = NoAnalyticsCall

PDCallWithRange ==
    /\ ~pdCall.called
    /\ \E r \in DateRanges :
          pdCall' = [called |-> TRUE, range |-> Some(r),
                     out |-> ProcessData(pdData, Some(r), tz)]
    /\ UNCHANGED <<appVars, tz, pdData, fnVars>>

PDCallNoRange ==
    /\ ~pdCall.called
    /\ pdCall' = [called |-> TRUE, range |-> Null,
                  out |-> ProcessData(pdData, Null, tz)]
    /\ UNCHANGED <<appVars, tz, pdData, fnVars>>

\* processData called on rows with empty, null and missing cells
InitFields ==
    /\ InitApp
    /\ pdData \in FieldInputs
    /\ pdCall = NoCall
    /\ flArgs = NoFilterArgs
    /\ flCall = NoFilterCall
    /\ anData = <<>>
    /\ anCall = NoAnalyticsCall

\* ---------------------------------------- filterResults called on its own
InitFilter ==
    /\ InitApp
    /\ pdData = <<>>
    /\ pdCall = NoCall
    /\ flArgs \in FilterInputs
    /\ flCall = NoFilterCall
    /\ anData = <<>>
    /\ anCall = NoAnalyticsCall

FilterCall ==
    /\ ~flCall.called
    /\ flCall' = [called |-> TRUE,
                  out |-> FilterResults(flArgs.data, flArgs.source,
                                        flArgs.term)]
    /\ UNCHANGED <<appVars, tz, pdVars, flArgs, anData, anCall>>

\* -------------------------------------- the view memo computed on its own
InitSort ==
    /\ InitApp
    /\ pdData = <<>>
    /\ pdCall = NoCall
    /\ flArgs \in SortInputs
    /\ flCall = NoFilterCall
    /\ anData = <<>>
    /\ anCall = NoAnalyticsCall

ViewCall ==
    /\ ~flCall.called
    /\ flCall' = [called |-> TRUE,
                  out |-> FilteredAndSortedResults(Some(flArgs.data),
                              flArgs.source, flArgs.term, flArgs.config)]
    /\ UNCHANGED <<appVars, tz, pdVars, flArgs, anData, anCall>>

\* -------------------------------------- the analytics computed on their own
InitAnalytics ==
    /\ InitApp
    /\ pdData = <<>>
    /\ pdCall = NoCall
    /\ flArgs = NoFilterArgs
    /\ flCall = NoFilterCall
    /\ anData \in AnalyticsInputs
    /\ anCall = NoAnalyticsCall

\* the memo of either revision of the dashboard, on one data prop
AnalyticsCall ==
    /\ ~anCall.called
    /\ anCall' = [called |-> TRUE, out |-> Analytics(anData),
                  top |-> AnalyticsTop(anData)]
    /\ UNCHANGED <<appVars, tz, pdVars, flArgs, flCall, anData>>

\* --------------------------------------------------------- specifications
StartLoad == \E f \in FileNames : ProcessFile(f)
Complete == \E f \in FileNames : ParseComplete(f)
Fail == \E f \in FileNames : ParseError(f)
EditStart == \E d \in DateStrings : SetStartDate(d)
EditEnd == \E d \in DateStrings : SetEndDate(d)

NextLoad ==
    \/ StartLoad
    \/ Complete
    \/ Fail
    \/ LoadTimer
    \/ ResetView
    \/ ResetTimer

NextRange ==
    \/ StartLoad
    \/ Complete
    \/ Fail
    \/ LoadTimer
    \/ EditStart
    \/ EditEnd
    \/ HandleDateRangeApply

NextPD ==
    \/ PDCallWithRange
    \/ PDCallNoRange

EditSearch == \E term \in SearchTerms : SetSearchTerm(term)
EditSource == \E ip \in SourceOptions : SetSelectedSource(ip)
Sort == \E key \in SortKeys : HandleSort(key)

\* a load started while no other is in flight
StartLoadWhenIdle == InFlight = 0 /\ StartLoad

NextView ==
    \/ StartLoadWhenIdle
    \/ Complete
    \/ Fail
    \/ LoadTimer
    \/ EditSearch
    \/ EditSource
    \/ Sort

NextDates ==
    \/ StartLoadWhenIdle
    \/ Complete
    \/ Fail
    \/ LoadTimer
    \/ EditSearch
    \/ EditStart
    \/ EditEnd
    \/ HandleDateRangeApply

NextExport ==
    \/ StartLoadWhenIdle
    \/ Complete
    \/ Fail
    \/ LoadTimer
    \/ EditSearch
    \/ Sort
    \/ DownloadResults
    \/ DownloadTimer

NextCache ==
    \/ StartLoad
    \/ Complete
    \/ Fail
    \/ LoadTimer
    \/ ResetView
    \/ ResetTimer
    \/ EditSearch
    \/ Remount

NextReset ==
    \/ StartLoadWhenIdle
    \/ Complete
    \/ Fail
    \/ LoadTimer
    \/ EditSearch
    \/ EditSource
    \/ EditStart
    \/ EditEnd
    \/ HandleDateRangeApply
    \/ ResetFilters

NextFilter == FilterCall
NextSort == ViewCall
NextAnalytics == AnalyticsCall

Next ==
    \/ StartLoad
    \/ Complete
    \/ Fail
    \/ LoadTimer
    \/ ResetView
    \/ ResetTimer
    \/ EditStart
    \/ EditEnd
    \/ HandleDateRangeApply
    \/ EditSearch
    \/ EditSource
    \/ Sort
    \/ DownloadResults
    \/ DownloadTimer
    \/ Remount
    \/ ResetFilters

Spec == Init /\ [][Next]_vars
SpecView == Init /\ [][NextView]_vars
SpecDates == Init /\ [][NextDates]_vars
SpecExport == Init /\ [][NextExport]_vars
SpecCache == Init /\ [][NextCache]_vars
SpecReset == Init /\ [][NextReset]_vars
SpecFilter == InitFilter /\ [][NextFilter]_vars
SpecSort == InitSort /\ [][NextSort]_vars
SpecAnalytics == InitAnalytics /\ [][NextAnalytics]_vars
SpecLoad == Init /\ [][NextLoad]_vars
SpecRange == Init /\ [][NextRange]_vars
SpecPD == InitPD /\ [][NextPD]_vars
SpecFields == InitFields /\ [][NextPD]_vars

\* ------------------------------------------------------------ properties
\* the events of the function-level input that the date filter lets through
PDFiltered == FilterByRange(Normalize(pdData), pdCall.range, tz)
PDReturned == pdCall.called /\ pdCall.out.ok
PDRows == pdCall.out.rows

\* a file that the complete callback accepts
Loadable(f) ==
    /\ FileParses(f)
    /\ FileRows(f) # <<>>
    /\ \A k \in 1..Len(FileRows(f)) : NewDate(FileRows(f)[k].Timestamp) # NaN
NoneParsing == \A f \in FileNames : parsing[f] = 0

\* C1: whenever processData returns, the freq values of its rows add up to
\* the number of events that passed the date filter.
C1_FrequencyConservation ==
    PDReturned => SumFreq(PDRows) = Len(PDFiltered)

C1_Witness ==
    /\ PDReturned
    /\ RangeGiven(pdCall.range)
    /\ \E k \in 1..Len(PDRows) : PDRows[k].freq >= 2
    /\ Len(PDFiltered) < Len(pdData)

\* C2: processData returns exactly one row per distinct tuple (Source,
\* Source Name, IP, Service, Target, time bucket) of the filtered events,
\* carrying that tuple and the number of events that have it, for all field
\* values, those with a '|' included.
EventTuple(e) ==
    <<e.Source, e.SourceName, e.IP, e.Service, e.Target, e.time_group>>
RowTuple(r) ==
    <<r.Source, r.SourceName, r.IP, r.Service, r.Target, SubSeq(r.Time, 1, 5)>>
C2_GroupingCorrect ==
    PDReturned =>
        LET tuples == {EventTuple(PDFiltered[i]) : i \in 1..Len(PDFiltered)}
        IN /\ Len(PDRows) = Cardinality(tuples)
           /\ \A u \in tuples :
                \E k \in 1..Len(PDRows) :
                   /\ RowTuple(PDRows[k]) = u
                   /\ PDRows[k].freq =
                        Cardinality({i \in 1..Len(PDFiltered) :
                                        EventTuple(PDFiltered[i]) = u})

\* C3: once no parse is in flight and the most recently started load is of
\* a file that loads, the raw data, the table and the date constraints are
\* those of that file, whatever the order in which the callbacks ran.
C3_NoClobber ==
    (NoneParsing /\ currentFile # "" /\ Loadable(currentFile)) =>
        LET data == FileRows(currentFile)
            stamps == {NewDate(data[k].Timestamp) : k \in 1..Len(data)}
        IN /\ rawData = data
           /\ results = Some(ProcessData(data, Null, tz).rows)
           /\ dateConstraints = [minDate |-> ISODate(MinOf(stamps)),
                                 maxDate |-> ISODate(MaxOf(stamps))]

\* C4: after resetView (results null, rawData empty, no file named), as long
\* as no new load is started, results stays null and rawData stays empty.
C4_ResetDiscards ==
    [][(results = Null /\ rawData = <<>> /\ currentFile = ""
        /\ currentFile' = "")
       => (results' = Null /\ rawData' = <<>>)]_vars

\* C5: the callback that ends a load in failure (the error callback, or the
\* complete callback through its catch) leaves results, rawData and
\* dateConstraints alone and leaves currentFile at what it was before the
\* load started, so it does not leave the session named after the failed
\* file (no other load of that file being in flight).
FailsAt(f) ==
    \/ ParseError(f)
    \/ (ParseComplete(f) /\ ~Loadable(f))
C5_FailedLoadUntouched ==
    [][\A f \in FileNames :
          FailsAt(f) =>
             /\ UNCHANGED <<results, rawData, dateConstraints>>
             /\ parsing[f] = 1 => currentFile' # f]_vars

\* C6: the complete callback of a file that holds an event with an
\* unparseable Timestamp sets no error and yields a table that counts every
\* event of the file.
HasInvalidTimestamp(data) ==
    \E k \in 1..Len(data) : NewDate(data[k].Timestamp) = NaN
C6_InvalidTimestampKept ==
    [][\A f \in FileNames :
          (ParseComplete(f) /\ HasInvalidTimestamp(FileRows(f)))
          => /\ error' = Null
             /\ results' # Null
             /\ SumFreq(results'[1]) = Len(FileRows(f))]_vars

\* C7: with both bounds set, processData keeps exactly the events from the
\* first millisecond of startDate to the last millisecond of endDate, both
\* taken on one calendar clock (UTC or the host's).
InDayWindow(t, range, clock) ==
    /\ t # NaN
    /\ t >= (range.startDate[1] - 1) * MsPerDay - clock
    /\ t <= (range.endDate[1] - 1) * MsPerDay - clock + (MsPerDay - 1)
C7_RangeInclusive ==
    (PDReturned /\ RangeGiven(pdCall.range)) =>
        \E clock \in {0, tz} :
            SumFreq(PDRows) =
                Cardinality({i \in 1..Len(pdData) :
                    InDayWindow(NewDate(pdData[i].Timestamp),
                                pdCall.range[1], clock)})

\* C8: a step of handleDateRangeApply leaves rawData as it was loaded from
\* the file and sets results to processData of all of it under the range in
\* force.
C8_NonDestructive ==
    [][HandleDateRangeApply =>
          /\ rawData' = rawData
          /\ \E f \in FileNames : rawData' = FileRows(f)
          /\ results' = Some(ProcessData(rawData', Some(dateRange'), tz').rows)
      ]_vars

C8_Witness ==
    /\ results # Null
    /\ RangeGiven(Some(dateRange))
    /\ results = Some(ProcessData(rawData, Some(dateRange), tz).rows)
    /\ SumFreq(results[1]) > 0
    /\ SumFreq(results[1]) < Len(rawData)

\* C9: called with no range, or with a range of which a bound is the empty
\* string, processData filters nothing: it returns what it returns for all
\* the raw events, and the rows count every one of them.
RangeAbsentOrOpen(range) ==
    \/ range = Null
    \/ range[1].startDate = EmptyStr
    \/ range[1].endDate = EmptyStr
C9_NoFilterWithoutBounds ==
    (pdCall.called /\ RangeAbsentOrOpen(pdCall.range)) =>
        /\ pdCall.out = ProcessData(pdData, Null, tz)
        /\ pdCall.out.ok => SumFreq(PDRows) = Len(pdData)

C9_Witness ==
    /\ PDReturned
    /\ pdCall.range # Null
    /\ pdCall.range[1].startDate = <<2>>
    /\ pdCall.range[1].endDate = EmptyStr
    /\ \E i \in 1..Len(pdData) : pdData[i].Timestamp.d = 1
    /\ SumFreq(PDRows) = Len(pdData)

\* C10: the rows processData returns are in ascending order of Source and,
\* among rows of one Source, in descending order of freq.
C10_DefaultOrdering ==
    PDReturned =>
        \A i, j \in 1..Len(PDRows) :
            i < j =>
                \/ StrLess(PDRows[i].Source, PDRows[j].Source)
                \/ /\ PDRows[i].Source = PDRows[j].Source
                   /\ PDRows[i].freq >= PDRows[j].freq

C10_Witness ==
    /\ PDReturned
    /\ PDRows # FrequencyData(GroupBy(SortByTimestamp(PDFiltered)))
    /\ \E i, j \in 1..Len(PDRows) :
          /\ i < j
          /\ PDRows[i].Source = PDRows[j].Source
          /\ PDRows[i].freq > PDRows[j].freq

\* the table that processData makes of the raw data, with no range
FullTable == Some(ProcessData(rawData, Null, tz).rows)

\* C11: a step of setSearchTerm, setSelectedSource or handleSort leaves
\* results and rawData as they were; the view after it is the filter and
\* sort of that same table under the new filter state.
C11_FiltersLeaveTable ==
    [][(EditSearch \/ EditSource \/ Sort) =>
          /\ results' = results
          /\ rawData' = rawData
          /\ view' = SortResults(FilterResults(results[1], selectedSource',
                                               searchTerm'), sortConfig')
      ]_vars

C11_Witness ==
    /\ results = FullTable
    /\ results # Null
    /\ searchTerm # EmptyStr
    /\ sortConfig.key = "Source"
    /\ view # <<>>
    /\ Len(view) < Len(results[1])

\* C12: a step that edits startDate or endDate leaves results and the view
\* as they were; a step after which results is the table of the range in
\* force (and not the table of all the raw data) is a step of
\* handleDateRangeApply.
C12_RangeAppliedOnDemand ==
    [][/\ (EditStart \/ EditEnd) => (results' = results /\ view' = view)
       /\ (/\ results' # results
           /\ RangeGiven(Some(dateRange'))
           /\ results' = Some(ProcessData(rawData', Some(dateRange'), tz).rows)
           /\ results' # Some(ProcessData(rawData', Null, tz).rows))
          => HandleDateRangeApply
      ]_vars

C12_Witness ==
    /\ results # Null
    /\ RangeGiven(Some(dateRange))
    /\ results = FullTable
    /\ results # Some(ProcessData(rawData, Some(dateRange), tz).rows)
    /\ view # <<>>

\* the two predicates of the filter, stated on one row
SourcePredicate(row, source) == source = EmptyStr \/ row.IP = source
ContainsIgnoringCase(field, term) ==
    \E i \in 0..(Len(field) - Len(term)) :
        \A k \in 1..Len(term) : LowerChar(field[i + k]) = LowerChar(term[k])
TextPredicate(row, term) ==
    \/ term = EmptyStr
    \/ \E field \in {row.Source, row.Target, row.SourceName, row.IP,
                     row.Service} : ContainsIgnoringCase(field, term)

\* C13: filterResults returns exactly the rows that satisfy the source
\* predicate and the text predicate, each as often as it occurs in the data
\* and in the data's order; applying the text filter before the source
\* filter gives the same rows; with both filters empty it returns all rows.
C13_FilterComposition ==
    flCall.called =>
        /\ flCall.out =
              SelectSeq(flArgs.data, LAMBDA row :
                  /\ SourcePredicate(row, flArgs.source)
                  /\ TextPredicate(row, flArgs.term))
        /\ flCall.out = BySource(BySearch(flArgs.data, flArgs.term),
                                 flArgs.source)
        /\ (flArgs.source = EmptyStr /\ flArgs.term = EmptyStr)
              => flCall.out = flArgs.data

C13_Witness ==
    /\ flCall.called
    /\ flArgs.source # EmptyStr
    /\ flArgs.term # EmptyStr
    /\ flCall.out # <<>>
    /\ Len(BySource(flArgs.data, flArgs.source)) > Len(flCall.out)
    /\ Len(BySearch(flArgs.data, flArgs.term)) > Len(flCall.out)

\* C14: with no source selected, a row is in what filterResults returns iff
\* the term is empty or one of Source, Target, Source Name, IP, Service
\* contains it ignoring case; a term found only in Time or freq keeps no row.
C14_TextFilter ==
    (flCall.called /\ flArgs.source = EmptyStr) =>
        \A i \in 1..Len(flArgs.data) :
            (\E k \in 1..Len(flCall.out) : flCall.out[k] = flArgs.data[i])
            <=> TextPredicate(flArgs.data[i], flArgs.term)

C14_Witness ==
    /\ flCall.called
    /\ flArgs.source = EmptyStr
    /\ flArgs.term = <<"T">>
    /\ flCall.out # <<>>
    /\ \E i \in 1..Len(flArgs.data) :
          /\ Includes(flArgs.data[i].Time, flArgs.term)
          /\ \A k \in 1..Len(flCall.out) : flCall.out[k] # flArgs.data[i]

\* C15: in either revision of the dashboard, the totalFreq of the entries of
\* ipDistribution add up to the freq of the rows handed in.
RECURSIVE SumTotalFreq(_)
SumTotalFreq(entries) ==
    IF entries = <<>> THEN 0
    ELSE entries[1].totalFreq + SumTotalFreq(Tail(entries))
C15_TotalsConserved ==
    anCall.called =>
        /\ SumTotalFreq(anCall.out.ipDistribution) = SumFreq(anData)
        /\ SumTotalFreq(anCall.top.ipDistribution) = SumFreq(anData)

\* C16: the six aggregates are all empty lists for no rows, and all
\* non-empty lists for one row or more.
Aggregates(a) ==
    {a.topSources, a.serviceStats, a.targetFrequency, a.timePatternAnalysis,
     a.ipDistribution, a.relationshipStrength}
C16_EmptyIffNoRows ==
    anCall.called =>
        /\ anData = <<>> => Aggregates(anCall.out) = {<<>>}
        /\ anData # <<>> => <<>> \notin Aggregates(anCall.out)

C16_Witness ==
    /\ anCall.called
    /\ Len(anData) >= 3
    /\ Len(anCall.out.ipDistribution) >= 2
    /\ Len(anCall.out.ipDistribution) < Len(anData)
    /\ <<>> \notin Aggregates(anCall.out)

\* C17: the complete callback of a file with a header row and no data row
\* sets no error, makes results the empty table and hands the dashboard no
\* rows, so that its six aggregates are empty.
C17_EmptyFileLoads ==
    [][ParseComplete("empty.csv") =>
          /\ error' = Null
          /\ results' = Some(<<>>)
          /\ dashboard' = Some([data |-> <<>>, analytics |-> EmptyAnalytics])
      ]_vars

\* C18: a step of downloadResults exports the rows of the view, in the
\* view's order.
C18_ExportIsView ==
    [][DownloadResults => exported' = Some(Unparse(view))]_vars

\* C19: while results is not null the dashboard is mounted, its data prop is
\* the filter and sort of results under the filter state in force, and its
\* six aggregates are the analytics of that row list.
C19_DashboardFollowsFilters ==
    results # Null =>
        /\ dashboard # Null
        /\ dashboard[1].data =
              SortResults(FilterResults(results[1], selectedSource,
                                        searchTerm), sortConfig)
        /\ dashboard[1].analytics = Analytics(dashboard[1].data)

C19_Witness ==
    /\ results # Null
    /\ searchTerm # EmptyStr
    /\ selectedSource # EmptyStr
    /\ dashboard # Null
    /\ dashboard[1].data # <<>>
    /\ Len(dashboard[1].data) < Len(results[1])
    /\ dashboard[1].analytics # Analytics(results[1])

\* C20: resetView leaves the cache empty; from then on, as long as no load
\* is started, the cache stays empty, and a remount finds the component in
\* its initial state.
C20_ResetClearsCache ==
    [][/\ ResetView => cache' = Null
       /\ (cache = Null /\ currentFile = "" /\ currentFile' = "")
             => cache' = Null
       /\ (Remount /\ currentFile = "")
             => (results' = Null /\ rawData' = <<>> /\ showSelector'
                 /\ ~showResults')
      ]_vars

\* C21: every event with an empty or missing Source, Source Name, IP,
\* Service or Target is kept, and the row built from it carries the empty
\* string in that field and the other fields as they are.
FieldText(value) ==
    IF value = JsNull \/ value = Undefined THEN EmptyStr ELSE value
C21_EmptyFieldsPreserved ==
    PDReturned =>
        /\ SumFreq(PDRows) = Len(PDFiltered)
        /\ \A i \in 1..Len(PDFiltered) :
              \E k \in 1..Len(PDRows) :
                 /\ PDRows[k].Source = FieldText(PDFiltered[i].Source)
                 /\ PDRows[k].SourceName = FieldText(PDFiltered[i].SourceName)
                 /\ PDRows[k].IP = FieldText(PDFiltered[i].IP)
                 /\ PDRows[k].Service = FieldText(PDFiltered[i].Service)
                 /\ PDRows[k].Target = FieldText(PDFiltered[i].Target)

\* C22: the Time of the row of a group (the events of one grouping key) is
\* the formatted timestamp of the earliest event of the group.
SameGroup(i) ==
    {j \in 1..Len(PDFiltered) : GroupKey(PDFiltered[j]) = GroupKey(PDFiltered[i])}
C22_TimeOfEarliest ==
    PDReturned =>
        LET events == PDFiltered
            rows == PDRows
            group(i) == {j \in 1..Len(events) :
                            GroupKey(events[j]) = GroupKey(events[i])}
        IN \A i \in 1..Len(events) :
              \E k \in 1..Len(rows) :
                 /\ rows[k].freq = Cardinality(group(i))
                 /\ <<rows[k].Source, rows[k].SourceName, rows[k].IP,
                      rows[k].Service, rows[k].Target>>
                    = SubSeq(Split(GroupKey(events[i]), "|"), 1, 5)
                 /\ rows[k].Time =
                       ConvertToPST(MinOf({events[j].Timestamp :
                                              j \in group(i)}))

C22_Witness ==
    /\ PDReturned
    /\ \E i, j \in 1..Len(PDFiltered) :
          /\ i < j
          /\ j \in SameGroup(i)
          /\ PDFiltered[j].Timestamp < PDFiltered[i].Timestamp
          /\ ConvertToPST(PDFiltered[j].Timestamp)
                # ConvertToPST(PDFiltered[i].Timestamp)
          /\ \E k \in 1..Len(PDRows) :
                /\ PDRows[k].freq = Cardinality(SameGroup(i))
                /\ PDRows[k].Time = ConvertToPST(PDFiltered[j].Timestamp)

\* C23: the view is the filtered rows rearranged so that no row comes after
\* a row that sorts behind it in the configured column and direction, and
\* rows with equal values in that column keep the order they have in results.
SortValueLess(a, b, key) ==
    IF key = "freq" THEN a.freq < b.freq
    ELSE StrLess(Field(a, key), Field(b, key))
SortsBehind(a, b, config) ==
    IF config.direction = "asc" THEN SortValueLess(b, a, config.key)
    ELSE SortValueLess(a, b, config.key)
C23_StableSortedView ==
    flCall.called =>
        LET rows == FilterResults(flArgs.data, flArgs.source, flArgs.term)
            n == Len(rows)
        IN \E p \in [1..n -> 1..n] :
              /\ \A k, l \in 1..n : k # l => p[k] # p[l]
              /\ flCall.out = [k \in 1..n |-> rows[p[k]]]
              /\ \A k, l \in 1..n :
                    k < l =>
                       /\ ~SortsBehind(rows[p[k]], rows[p[l]], flArgs.config)
                       /\ ~SortsBehind(rows[p[l]], rows[p[k]], flArgs.config)
                             => p[k] < p[l]

C23_Witness ==
    /\ flCall.called
    /\ flArgs.config = [key |-> "freq", direction |-> "desc"]
    /\ Len(flCall.out) = 3
    /\ flCall.out # flArgs.data
    /\ flCall.out[1].freq > flCall.out[2].freq
    /\ flCall.out[2].freq = flCall.out[3].freq
    /\ flCall.out[2] # flCall.out[3]

\* C25: in every state where rawData is not empty, dateConstraints holds the
\* calendar dates of the smallest and of the largest timestamp of rawData,
\* whatever filter, date-range or reset-filters operations ran since the load
RawTimestamps == {NewDate(rawData[k].Timestamp) : k \in 1..Len(rawData)}
C25_ConstraintsTiedToRawData ==
    rawData # <<>> =>
        dateConstraints = [minDate |-> ISODate(MinOf(RawTimestamps)),
                           maxDate |-> ISODate(MaxOf(RawTimestamps))]

\* C26: ipDistribution has one entry per distinct IP of the rows handed in,
\* each with the summed freq of the rows of its IP, in order of non-increasing
\* totalFreq, so that no IP has a larger sum than the first entry; every
\* entry has uniqueTargets >= 1.
RowsOfIp(ip) == SelectSeq(anData, LAMBDA r : r.IP = ip)
C26_IpDistributionOrdered ==
    anCall.called =>
        LET dist == anCall.out.ipDistribution
            ips == {anData[i].IP : i \in 1..Len(anData)}
        IN /\ Len(dist) = Cardinality(ips)
           /\ {dist[k].ip : k \in 1..Len(dist)} = ips
           /\ \A k \in 1..Len(dist) :
                 /\ dist[k].totalFreq = SumFreq(RowsOfIp(dist[k].ip))
                 /\ dist[k].uniqueTargets >= 1
                 /\ dist[k].uniqueTargets =
                       Cardinality({RowsOfIp(dist[k].ip)[i].Target :
                                       i \in 1..Len(RowsOfIp(dist[k].ip))})
           /\ \A k \in 1..(Len(dist) - 1) :
                 dist[k].totalFreq >= dist[k + 1].totalFreq
           /\ \A ip \in ips : SumFreq(RowsOfIp(ip)) <= dist[1].totalFreq

\* an IP that comes second in the input and has the larger sum over two rows
\* is the first entry
C26_Witness ==
    /\ anCall.called
    /\ Len(anData) = 3
    /\ anData[1].IP # anData[2].IP
    /\ anData[2].IP = anData[3].IP
    /\ Len(anCall.out.ipDistribution) = 2
    /\ anCall.out.ipDistribution[1].ip = anData[2].IP
    /\ anCall.out.ipDistribution[1].totalFreq =
          anData[2].freq + anData[3].freq
    /\ anCall.out.ipDistribution[1].totalFreq >
          anCall.out.ipDistribution[2].totalFreq
    /\ anData[1].freq > anData[2].freq

\* C27: the sort starts as (freq, desc); after handleSort(k) the key is k and
\* the direction is desc exactly when the key was k and the direction asc
\* before, and asc otherwise, so that the first click on freq gives asc and
\* clicks on one column alternate asc, desc, asc, ...
C27_SortToggles ==
    /\ sortConfig = [key |-> "freq", direction |-> "desc"]
    /\ [][\A k \in SortKeys : HandleSort(k) =>
             /\ sortConfig'.key = k
             /\ (sortConfig'.direction = "desc") <=>
                    (sortConfig.key = k /\ sortConfig.direction = "asc")
             /\ sortConfig'.direction \in {"asc", "desc"}]_vars

\* a column other than freq sorted descending: it was clicked twice in a row
C27_Witness ==
    /\ results # Null
    /\ sortConfig = [key |-> "IP", direction |-> "desc"]

\* C28: the reset-all-filters action on a loaded file empties searchTerm,
\* selectedSource and both date bounds and makes results the table of all
\* the raw events, whatever range was applied before; rawData, currentFile
\* and sortConfig are left as they were.
C28_ResetRestoresTable ==
    [][(ResetFilters /\ rawData # <<>>) =>
          /\ searchTerm' = EmptyStr
          /\ selectedSource' = EmptyStr
          /\ dateRange' = [startDate |-> EmptyStr, endDate |-> EmptyStr]
          /\ results' = Some(ProcessData(rawData, Null, tz).rows)
          /\ SumFreq(results'[1]) = Len(rawData)
          /\ rawData' = rawData
          /\ currentFile' = currentFile
          /\ sortConfig' = sortConfig]_vars

\* the state the button leaves behind: the full table of a loaded file with
\* no filter, no range and blank date constraints
C28_Witness ==
    /\ Len(rawData) >= 2
    /\ results = Some(ProcessData(rawData, Null, tz).rows)
    /\ SumFreq(results[1]) = Len(rawData)
    /\ searchTerm = EmptyStr
    /\ selectedSource = EmptyStr
    /\ dateRange = NoDateRange
    /\ dateConstraints = [minDate |-> EmptyStr, maxDate |-> EmptyStr]

\* C29: in every reachable state selectedSource is empty or the IP of a row
\* of results, also after a date range is applied that removes every row of
\* the selected IP
C29_SelectedSourceInTable ==
    \/ selectedSource = EmptyStr
    \/ /\ results # Null
       /\ \E k \in 1..Len(results[1]) : results[1][k].IP = selectedSource

\* C30: loading is true whenever a started load has a parse callback still
\* to run, also when several loads overlap, and loading is false once every
\* started load has completed or failed and the 300 ms timers have fired
C30_LoadingTracksLoads ==
    /\ (\E f \in FileNames : parsing[f] > 0) => loading
    /\ InFlight = 0 => ~loading
====
